---- MODULE Spec2Model ----
(***************************************************************************)
(* Model of the bake target resolution engine (package bake):             *)
(* ReadTargets, mergeConfig, newOverrides/expandTargets, ResolveGroup,    *)
(* ResolveTarget/target, merge, normalize/removeDupes.                    *)
(*                                                                         *)
(* Go strings are sequences of one-character strings, so that splitting   *)
(* an override string and glob matching are computed, not assumed.        *)
(* A Go pointer or slice that may be nil is a sequence of length 0 (nil)  *)
(* or 1 (the value).  A Go map is a function; the nil map and the empty   *)
(* map are both the empty function (they read alike).                     *)
(***************************************************************************)
EXTENDS Integers, Sequences, FiniteSets, TLC

VARIABLES files, targets, overrides, env, pc, fi, oi, ti, pending, c, o, m, err,
          stack, visitedMap

vars == <<files, targets, overrides, env, pc, fi, oi, ti, pending, c, o, m, err,
          stack, visitedMap>>

inputs == <<files, targets, overrides, env>>

(* ------------------------------ values -------------------------------- *)

Nil == <<>>

Some(x) == <<x>>

Val(p) == p[1]

NoMap == <<>>

Has(mp, k) == k \in DOMAIN mp

Put(mp, k, v) == [x \in DOMAIN mp \cup {k} |-> IF x = k THEN v ELSE mp[x]]

NoErr == [msg |-> "", arg |-> <<>>]

Errorf(msg, arg) == [msg |-> msg, arg |-> arg]

(* ------------------------------ strings ------------------------------- *)

RECURSIVE Index(_, _)
Index(s, ch) ==
  IF s = <<>> THEN 0
  ELSE IF Head(s) = ch THEN 1
  ELSE LET r == Index(Tail(s), ch) IN IF r = 0 THEN 0 ELSE r + 1

RECURSIVE SplitN(_, _, _)
SplitN(s, sep, n) ==
  IF n = 1 THEN <<s>>
  ELSE LET i == Index(s, sep) IN
       IF i = 0 THEN <<s>>
       ELSE <<SubSeq(s, 1, i - 1)>> \o SplitN(SubSeq(s, i + 1, Len(s)), sep, n - 1)

RECURSIVE Match(_, _)
Match(pattern, name) ==
  IF pattern = <<>> THEN name = <<>>
  ELSE IF Head(pattern) = "*"
       THEN \/ Match(Tail(pattern), name)
            \/ (name # <<>> /\ Head(name) # "/" /\ Match(pattern, Tail(name)))
  ELSE /\ name # <<>>
       /\ IF Head(pattern) = "?" THEN Head(name) # "/" ELSE Head(pattern) = Head(name)
       /\ Match(Tail(pattern), Tail(name))

ParseBool(s) ==
  IF s \in {<<"1">>, <<"t">>, <<"T">>, <<"T","R","U","E">>, <<"t","r","u","e">>, <<"T","r","u","e">>}
  THEN [v |-> TRUE, ok |-> TRUE]
  ELSE IF s \in {<<"0">>, <<"f">>, <<"F">>, <<"F","A","L","S","E">>, <<"f","a","l","s","e">>, <<"F","a","l","s","e">>}
  THEN [v |-> FALSE, ok |-> TRUE]
  ELSE [v |-> FALSE, ok |-> FALSE]

LookupEnv(e, k) == IF Has(e, k) THEN [v |-> e[k], ok |-> TRUE] ELSE [v |-> <<>>, ok |-> FALSE]

(* the override keys of newOverrides *)
kContext == <<"c","o","n","t","e","x","t">>
kDockerfile == <<"d","o","c","k","e","r","f","i","l","e">>
kArgs == <<"a","r","g","s">>
kLabels == <<"l","a","b","e","l","s">>
kTags == <<"t","a","g","s">>
kCacheFrom == <<"c","a","c","h","e","-","f","r","o","m">>
kCacheTo == <<"c","a","c","h","e","-","t","o">>
kTarget == <<"t","a","r","g","e","t">>
kSecrets == <<"s","e","c","r","e","t","s">>
kSSH == <<"s","s","h">>
kPlatform == <<"p","l","a","t","f","o","r","m">>
kOutput == <<"o","u","t","p","u","t">>
kNoCache == <<"n","o","-","c","a","c","h","e">>
kPull == <<"p","u","l","l">>

(* ------------------------------ Target -------------------------------- *)

Target(inherits, context, dockerfile, args, labels, tags, cacheFrom, cacheTo, target, secrets, ssh, platforms, outputs, pull, noCache) ==
  [Inherits |-> inherits, Context |-> context, Dockerfile |-> dockerfile,
   Args |-> args, Labels |-> labels, Tags |-> tags, CacheFrom |-> cacheFrom,
   CacheTo |-> cacheTo, Target |-> target, Secrets |-> secrets, SSH |-> ssh,
   Platforms |-> platforms, Outputs |-> outputs, Pull |-> pull, NoCache |-> noCache]

defaultTarget ==
  Target(<<>>, Nil, Nil, NoMap, NoMap, Nil, Nil, Nil, Nil, Nil, Nil, Nil, Nil, FALSE, FALSE)

(* append(a, xs...) on a possibly nil slice a: appending nothing to nil is nil *)
AppendSlice(a, xs) ==
  IF a = Nil THEN (IF xs = <<>> THEN Nil ELSE Some(xs)) ELSE Some(Val(a) \o xs)

MergeMap(m1, m2) ==
  [k \in DOMAIN m1 \cup DOMAIN m2 |-> IF k \in DOMAIN m2 THEN m2[k] ELSE m1[k]]

(* merge with the base winning on every args key *)
mergeArgsBaseWins(t1, t2) ==
  [Inherits |-> t1.Inherits \o t2.Inherits,
   Context |-> IF t2.Context # Nil THEN t2.Context ELSE t1.Context,
   Dockerfile |-> IF t2.Dockerfile # Nil THEN t2.Dockerfile ELSE t1.Dockerfile,
   Args |-> MergeMap(t2.Args, t1.Args),
   Labels |-> MergeMap(t1.Labels, t2.Labels),
   Tags |-> IF t2.Tags # Nil THEN t2.Tags ELSE t1.Tags,
   Target |-> IF t2.Target # Nil THEN t2.Target ELSE t1.Target,
   Secrets |-> IF t2.Secrets # Nil THEN AppendSlice(t1.Secrets, Val(t2.Secrets)) ELSE t1.Secrets,
   SSH |-> IF t2.SSH # Nil THEN AppendSlice(t1.SSH, Val(t2.SSH)) ELSE t1.SSH,
   Platforms |-> IF t2.Platforms # Nil THEN t2.Platforms ELSE t1.Platforms,
   CacheFrom |-> IF t2.CacheFrom # Nil THEN AppendSlice(t1.CacheFrom, Val(t2.CacheFrom)) ELSE t1.CacheFrom,
   CacheTo |-> IF t2.CacheTo # Nil THEN t2.CacheTo ELSE t1.CacheTo,
   Outputs |-> IF t2.Outputs # Nil THEN t2.Outputs ELSE t1.Outputs,
   Pull |-> t1.Pull,
   NoCache |-> t1.NoCache]

(* merge with cache-from replaced wholesale, as its comment reads *)
mergeCacheFromReplaced(t1, t2) ==
  [Inherits |-> t1.Inherits \o t2.Inherits,
   Context |-> IF t2.Context # Nil THEN t2.Context ELSE t1.Context,
   Dockerfile |-> IF t2.Dockerfile # Nil THEN t2.Dockerfile ELSE t1.Dockerfile,
   Args |-> MergeMap(t1.Args, t2.Args),
   Labels |-> MergeMap(t1.Labels, t2.Labels),
   Tags |-> IF t2.Tags # Nil THEN t2.Tags ELSE t1.Tags,
   Target |-> IF t2.Target # Nil THEN t2.Target ELSE t1.Target,
   Secrets |-> IF t2.Secrets # Nil THEN AppendSlice(t1.Secrets, Val(t2.Secrets)) ELSE t1.Secrets,
   SSH |-> IF t2.SSH # Nil THEN AppendSlice(t1.SSH, Val(t2.SSH)) ELSE t1.SSH,
   Platforms |-> IF t2.Platforms # Nil THEN t2.Platforms ELSE t1.Platforms,
   CacheFrom |-> IF t2.CacheFrom # Nil THEN t2.CacheFrom ELSE t1.CacheFrom,
   CacheTo |-> IF t2.CacheTo # Nil THEN t2.CacheTo ELSE t1.CacheTo,
   Outputs |-> IF t2.Outputs # Nil THEN t2.Outputs ELSE t1.Outputs,
   Pull |-> t1.Pull,
   NoCache |-> t1.NoCache]

merge(t1, t2) ==
  [Inherits |-> t1.Inherits \o t2.Inherits,
   Context |-> IF t2.Context # Nil THEN t2.Context ELSE t1.Context,
   Dockerfile |-> IF t2.Dockerfile # Nil THEN t2.Dockerfile ELSE t1.Dockerfile,
   Args |-> MergeMap(t1.Args, t2.Args),
   Labels |-> MergeMap(t1.Labels, t2.Labels),
   Tags |-> IF t2.Tags # Nil THEN t2.Tags ELSE t1.Tags,
   Target |-> IF t2.Target # Nil THEN t2.Target ELSE t1.Target,
   Secrets |-> IF t2.Secrets # Nil THEN AppendSlice(t1.Secrets, Val(t2.Secrets)) ELSE t1.Secrets,
   SSH |-> IF t2.SSH # Nil THEN AppendSlice(t1.SSH, Val(t2.SSH)) ELSE t1.SSH,
   Platforms |-> IF t2.Platforms # Nil THEN t2.Platforms ELSE t1.Platforms,
   CacheFrom |-> IF t2.CacheFrom # Nil THEN AppendSlice(t1.CacheFrom, Val(t2.CacheFrom)) ELSE t1.CacheFrom,
   CacheTo |-> IF t2.CacheTo # Nil THEN t2.CacheTo ELSE t1.CacheTo,
   Outputs |-> IF t2.Outputs # Nil THEN t2.Outputs ELSE t1.Outputs,
   Pull |-> t1.Pull,
   NoCache |-> t1.NoCache]

(* the loop of removeDupes over a sequence: the entries kept, in order *)
RECURSIVE Dedupe(_, _)
Dedupe(s, seen) ==
  IF s = <<>> THEN <<>>
  ELSE IF Head(s) \in seen THEN Dedupe(Tail(s), seen)
  ELSE <<Head(s)>> \o Dedupe(Tail(s), seen \cup {Head(s)})

Reverse(s) == [i \in 1..Len(s) |-> s[Len(s) + 1 - i]]

(* removeDupes keeping the last occurrence of every entry *)
removeDupesKeepsLast(s) == IF s = Nil THEN Nil ELSE Some(Reverse(Dedupe(Reverse(Val(s)), {})))

removeDupes(s) == IF s = Nil THEN Nil ELSE Some(Dedupe(Val(s), {}))

normalize(t) ==
  [t EXCEPT !.Tags = removeDupes(t.Tags),
            !.Secrets = removeDupes(t.Secrets),
            !.SSH = removeDupes(t.SSH),
            !.Platforms = removeDupes(t.Platforms),
            !.CacheFrom = removeDupes(t.CacheFrom),
            !.CacheTo = removeDupes(t.CacheTo),
            !.Outputs = removeDupes(t.Outputs)]

(* ------------------------------ Config -------------------------------- *)

Config(group, target) == [Group |-> group, Target |-> target]

EmptyConfig == Config(NoMap, NoMap)

RECURSIVE AppendMissing(_, _)
AppendMissing(g1, ts) ==
  IF ts = <<>> THEN g1
  ELSE AppendMissing(IF \E i \in 1..Len(g1) : g1[i] = Head(ts) THEN g1 ELSE Append(g1, Head(ts)),
                     Tail(ts))

mergeConfig(c1, c2) ==
  Config([k \in DOMAIN c1.Group \cup DOMAIN c2.Group |->
            IF k \notin DOMAIN c2.Group THEN c1.Group[k]
            ELSE IF k \in DOMAIN c1.Group THEN AppendMissing(c1.Group[k], c2.Group[k])
            ELSE c2.Group[k]],
         [k \in DOMAIN c1.Target \cup DOMAIN c2.Target |->
            IF k \notin DOMAIN c2.Target THEN c1.Target[k]
            ELSE IF k \in DOMAIN c1.Target THEN merge(c1.Target[k], c2.Target[k])
            ELSE c2.Target[k]])

(* a map read: the zero Target when the key is absent *)
At(mp, k) == IF Has(mp, k) THEN mp[k] ELSE defaultTarget

(* ---------------------------- overrides ------------------------------- *)

(* the names are a set: the loop over them treats every name alike and     *)
(* touches only that name's entry, so the map iteration order is invisible *)
(* expandTargets without the exact-name case: every pattern is a glob *)
expandTargetsGlobOnly(cfg, pattern) ==
  LET names == {name \in DOMAIN cfg.Target : Match(pattern, name)} IN
  IF names = {} THEN [names |-> {}, err |-> Errorf("could not find any target matching", pattern)]
  ELSE [names |-> names, err |-> NoErr]

(* expandTargets skipping a pattern that matches nothing *)
expandTargetsSkipNoMatch(cfg, pattern) ==
  IF Has(cfg.Target, pattern) THEN [names |-> {pattern}, err |-> NoErr]
  ELSE [names |-> {name \in DOMAIN cfg.Target : Match(pattern, name)}, err |-> NoErr]

expandTargets(cfg, pattern) ==
  IF Has(cfg.Target, pattern) THEN [names |-> {pattern}, err |-> NoErr]
  ELSE LET names == {name \in DOMAIN cfg.Target : Match(pattern, name)} IN
       IF names = {} THEN [names |-> {}, err |-> Errorf("could not find any target matching", pattern)]
       ELSE [names |-> names, err |-> NoErr]

(* the switch of newOverrides on keys[1], for one matched name's entry t *)
(* setField taking a missing environment variable for the empty string *)
setFieldMissingEnvIsEmpty(t, keys, parts, e) ==
  LET field == keys[2]
      ok(x) == [t |-> x, err |-> NoErr]
      bad(msg, arg) == [t |-> t, err |-> Errorf(msg, arg)]
  IN
  CASE field = kContext -> ok([t EXCEPT !.Context = Some(parts[2])])
    [] field = kDockerfile -> ok([t EXCEPT !.Dockerfile = Some(parts[2])])
    [] field = kArgs ->
         IF Len(keys) # 3 THEN bad("invalid key, args requires name", parts[1])
         ELSE IF Len(parts) < 2
              THEN LET l == LookupEnv(e, keys[3]) IN
                   ok([t EXCEPT !.Args = Put(t.Args, keys[3], l.v)])
              ELSE ok([t EXCEPT !.Args = Put(t.Args, keys[3], parts[2])])
    [] field = kLabels ->
         IF Len(keys) # 3 THEN bad("invalid key, lanels requires name", parts[1])
         ELSE ok([t EXCEPT !.Labels = Put(t.Labels, keys[3], parts[2])])
    [] field = kTags -> ok([t EXCEPT !.Tags = AppendSlice(t.Tags, <<parts[2]>>)])
    [] field = kCacheFrom -> ok([t EXCEPT !.CacheFrom = AppendSlice(t.CacheFrom, <<parts[2]>>)])
    [] field = kCacheTo -> ok([t EXCEPT !.CacheTo = AppendSlice(t.CacheTo, <<parts[2]>>)])
    [] field = kTarget -> ok([t EXCEPT !.Target = Some(parts[2])])
    [] field = kSecrets -> ok([t EXCEPT !.Secrets = AppendSlice(t.Secrets, <<parts[2]>>)])
    [] field = kSSH -> ok([t EXCEPT !.SSH = AppendSlice(t.SSH, <<parts[2]>>)])
    [] field = kPlatform -> ok([t EXCEPT !.Platforms = AppendSlice(t.Platforms, <<parts[2]>>)])
    [] field = kOutput -> ok([t EXCEPT !.Outputs = AppendSlice(t.Outputs, <<parts[2]>>)])
    [] field = kNoCache ->
         LET b == ParseBool(parts[2]) IN
         IF ~b.ok THEN bad("invalid value for boolean key no-cache", parts[2])
         ELSE ok([t EXCEPT !.NoCache = b.v])
    [] field = kPull ->
         LET b == ParseBool(parts[2]) IN
         IF ~b.ok THEN bad("invalid value for boolean key pull", parts[2])
         ELSE ok([t EXCEPT !.Pull = b.v])
    [] OTHER -> bad("unknown key", field)

(* setField with a cache-to override replacing the list *)
setFieldCacheToReplaced(t, keys, parts, e) ==
  LET field == keys[2]
      ok(x) == [t |-> x, err |-> NoErr]
      bad(msg, arg) == [t |-> t, err |-> Errorf(msg, arg)]
  IN
  CASE field = kContext -> ok([t EXCEPT !.Context = Some(parts[2])])
    [] field = kDockerfile -> ok([t EXCEPT !.Dockerfile = Some(parts[2])])
    [] field = kArgs ->
         IF Len(keys) # 3 THEN bad("invalid key, args requires name", parts[1])
         ELSE IF Len(parts) < 2
              THEN LET l == LookupEnv(e, keys[3]) IN
                   IF l.ok THEN ok([t EXCEPT !.Args = Put(t.Args, keys[3], l.v)]) ELSE ok(t)
              ELSE ok([t EXCEPT !.Args = Put(t.Args, keys[3], parts[2])])
    [] field = kLabels ->
         IF Len(keys) # 3 THEN bad("invalid key, lanels requires name", parts[1])
         ELSE ok([t EXCEPT !.Labels = Put(t.Labels, keys[3], parts[2])])
    [] field = kTags -> ok([t EXCEPT !.Tags = AppendSlice(t.Tags, <<parts[2]>>)])
    [] field = kCacheFrom -> ok([t EXCEPT !.CacheFrom = AppendSlice(t.CacheFrom, <<parts[2]>>)])
    [] field = kCacheTo -> ok([t EXCEPT !.CacheTo = Some(<<parts[2]>>)])
    [] field = kTarget -> ok([t EXCEPT !.Target = Some(parts[2])])
    [] field = kSecrets -> ok([t EXCEPT !.Secrets = AppendSlice(t.Secrets, <<parts[2]>>)])
    [] field = kSSH -> ok([t EXCEPT !.SSH = AppendSlice(t.SSH, <<parts[2]>>)])
    [] field = kPlatform -> ok([t EXCEPT !.Platforms = AppendSlice(t.Platforms, <<parts[2]>>)])
    [] field = kOutput -> ok([t EXCEPT !.Outputs = AppendSlice(t.Outputs, <<parts[2]>>)])
    [] field = kNoCache ->
         LET b == ParseBool(parts[2]) IN
         IF ~b.ok THEN bad("invalid value for boolean key no-cache", parts[2])
         ELSE ok([t EXCEPT !.NoCache = b.v])
    [] field = kPull ->
         LET b == ParseBool(parts[2]) IN
         IF ~b.ok THEN bad("invalid value for boolean key pull", parts[2])
         ELSE ok([t EXCEPT !.Pull = b.v])
    [] OTHER -> bad("unknown key", field)

setField(t, keys, parts, e) ==
  LET field == keys[2]
      ok(x) == [t |-> x, err |-> NoErr]
      bad(msg, arg) == [t |-> t, err |-> Errorf(msg, arg)]
  IN
  CASE field = kContext -> ok([t EXCEPT !.Context = Some(parts[2])])
    [] field = kDockerfile -> ok([t EXCEPT !.Dockerfile = Some(parts[2])])
    [] field = kArgs ->
         IF Len(keys) # 3 THEN bad("invalid key, args requires name", parts[1])
         ELSE IF Len(parts) < 2
              THEN LET l == LookupEnv(e, keys[3]) IN
                   IF l.ok THEN ok([t EXCEPT !.Args = Put(t.Args, keys[3], l.v)]) ELSE ok(t)
              ELSE ok([t EXCEPT !.Args = Put(t.Args, keys[3], parts[2])])
    [] field = kLabels ->
         IF Len(keys) # 3 THEN bad("invalid key, lanels requires name", parts[1])
         ELSE ok([t EXCEPT !.Labels = Put(t.Labels, keys[3], parts[2])])
    [] field = kTags -> ok([t EXCEPT !.Tags = AppendSlice(t.Tags, <<parts[2]>>)])
    [] field = kCacheFrom -> ok([t EXCEPT !.CacheFrom = AppendSlice(t.CacheFrom, <<parts[2]>>)])
    [] field = kCacheTo -> ok([t EXCEPT !.CacheTo = AppendSlice(t.CacheTo, <<parts[2]>>)])
    [] field = kTarget -> ok([t EXCEPT !.Target = Some(parts[2])])
    [] field = kSecrets -> ok([t EXCEPT !.Secrets = AppendSlice(t.Secrets, <<parts[2]>>)])
    [] field = kSSH -> ok([t EXCEPT !.SSH = AppendSlice(t.SSH, <<parts[2]>>)])
    [] field = kPlatform -> ok([t EXCEPT !.Platforms = AppendSlice(t.Platforms, <<parts[2]>>)])
    [] field = kOutput -> ok([t EXCEPT !.Outputs = AppendSlice(t.Outputs, <<parts[2]>>)])
    [] field = kNoCache ->
         LET b == ParseBool(parts[2]) IN
         IF ~b.ok THEN bad("invalid value for boolean key no-cache", parts[2])
         ELSE ok([t EXCEPT !.NoCache = b.v])
    [] field = kPull ->
         LET b == ParseBool(parts[2]) IN
         IF ~b.ok THEN bad("invalid value for boolean key pull", parts[2])
         ELSE ok([t EXCEPT !.Pull = b.v])
    [] OTHER -> bad("unknown key", field)

(* one iteration of the loop of newOverrides: override string v applied to *)
(* the table mo                                                            *)
override(cfg, mo, v, e) ==
  LET parts == SplitN(v, "=", 2)
      keys == SplitN(parts[1], ".", 3)
  IN
  IF Len(keys) < 2
  THEN [m |-> NoMap, err |-> Errorf("invalid override key, expected target.name", parts[1])]
  ELSE IF Len(parts) # 2 /\ keys[2] # kArgs
  THEN [m |-> NoMap, err |-> Errorf("invalid override, expected target.name=value", v)]
  ELSE LET ex == expandTargets(cfg, keys[1]) IN
       IF ex.err # NoErr THEN [m |-> NoMap, err |-> ex.err]
       ELSE LET set(name) == setField(At(mo, name), keys, parts, e) IN
            IF \E name \in ex.names : set(name).err # NoErr
            THEN [m |-> NoMap, err |-> set(CHOOSE name \in ex.names : set(name).err # NoErr).err]
            ELSE [m |-> [name \in DOMAIN mo \cup ex.names |->
                           IF name \in ex.names THEN set(name).t ELSE mo[name]],
                  err |-> NoErr]

RECURSIVE overridesFrom(_, _, _, _)
overridesFrom(cfg, mo, v, e) ==
  IF v = <<>> THEN [m |-> mo, err |-> NoErr]
  ELSE LET r == override(cfg, mo, Head(v), e) IN
       IF r.err # NoErr THEN r ELSE overridesFrom(cfg, r.m, Tail(v), e)

newOverrides(cfg, v, e) == overridesFrom(cfg, NoMap, v, e)

(* ------------------------------ groups -------------------------------- *)

RECURSIVE group(_, _, _)
RECURSIVE groupEach(_, _, _, _)

(* group marking every name as visited, groups and targets alike *)
groupMarksEveryName(cfg, name, visited) ==
  IF name \in visited THEN [targets |-> <<>>, visited |-> visited]
  ELSE IF ~Has(cfg.Group, name) THEN [targets |-> <<name>>, visited |-> visited \cup {name}]
  ELSE groupEach(cfg, cfg.Group[name], visited \cup {name}, <<>>)

group(cfg, name, visited) ==
  IF name \in visited THEN [targets |-> <<>>, visited |-> visited]
  ELSE IF ~Has(cfg.Group, name) THEN [targets |-> <<name>>, visited |-> visited]
  ELSE groupEach(cfg, cfg.Group[name], visited \cup {name}, <<>>)

groupEach(cfg, ts, visited, acc) ==
  IF ts = <<>> THEN [targets |-> acc, visited |-> visited]
  ELSE LET r == group(cfg, Head(ts), visited) IN
       groupEach(cfg, Tail(ts), r.visited, acc \o r.targets)

ResolveGroup(cfg, name) == group(cfg, name, {}).targets

(* ------------------------------ targets ------------------------------- *)

(* target returns the resolved target (Nil for the nil pointer), the error, *)
(* the visited set as the call leaves it, and the names whose normalize ran *)
RECURSIVE target(_, _, _, _)
RECURSIVE inherit(_, _, _, _, _, _)

(* target with the override table consulted for the requested name only *)
targetOverrideAtTopOnly(cfg, ov, name, visited) ==
  IF name \in visited
  THEN [t |-> Nil, err |-> NoErr, visited |-> visited, done |-> {}]
  ELSE IF ~Has(cfg.Target, name)
  THEN [t |-> Nil, err |-> Errorf("failed to find target", name),
        visited |-> visited \cup {name}, done |-> {}]
  ELSE LET t == cfg.Target[name]
           inh == inherit(cfg, ov, t.Inherits, visited \cup {name}, defaultTarget, {})
       IN
       IF inh.err # NoErr
       THEN [t |-> Nil, err |-> inh.err, visited |-> inh.visited, done |-> inh.done]
       ELSE LET own == [t EXCEPT !.Inherits = <<>>]
                tt == merge(merge(merge(defaultTarget, inh.tt), own),
                            IF visited = {} THEN At(ov, name) ELSE defaultTarget)
            IN [t |-> Some(normalize(tt)), err |-> NoErr,
                visited |-> inh.visited, done |-> inh.done \cup {name}]

(* target filling the context and dockerfile fallbacks at every level *)
targetFallbackAtEveryLevel(cfg, ov, name, visited) ==
  IF name \in visited
  THEN [t |-> Nil, err |-> NoErr, visited |-> visited, done |-> {}]
  ELSE IF ~Has(cfg.Target, name)
  THEN [t |-> Nil, err |-> Errorf("failed to find target", name),
        visited |-> visited \cup {name}, done |-> {}]
  ELSE LET t == cfg.Target[name]
           inh == inherit(cfg, ov, t.Inherits, visited \cup {name}, defaultTarget, {})
       IN
       IF inh.err # NoErr
       THEN [t |-> Nil, err |-> inh.err, visited |-> inh.visited, done |-> inh.done]
       ELSE LET own == [t EXCEPT !.Inherits = <<>>]
                tt == merge(merge(merge(defaultTarget, inh.tt), own), At(ov, name))
                t1 == IF tt.Context = Nil THEN [tt EXCEPT !.Context = Some(<<".">>)] ELSE tt
                t2 == IF t1.Dockerfile = Nil
                      THEN [t1 EXCEPT !.Dockerfile = Some(<<"D","o","c","k","e","r","f","i","l","e">>)]
                      ELSE t1
            IN [t |-> Some(normalize(t2)), err |-> NoErr,
                visited |-> inh.visited, done |-> inh.done \cup {name}]

target(cfg, ov, name, visited) ==
  IF name \in visited
  THEN [t |-> Nil, err |-> NoErr, visited |-> visited, done |-> {}]
  ELSE IF ~Has(cfg.Target, name)
  THEN [t |-> Nil, err |-> Errorf("failed to find target", name),
        visited |-> visited \cup {name}, done |-> {}]
  ELSE LET t == cfg.Target[name]
           inh == inherit(cfg, ov, t.Inherits, visited \cup {name}, defaultTarget, {})
       IN
       IF inh.err # NoErr
       THEN [t |-> Nil, err |-> inh.err, visited |-> inh.visited, done |-> inh.done]
       ELSE LET own == [t EXCEPT !.Inherits = <<>>]
                tt == merge(merge(merge(defaultTarget, inh.tt), own), At(ov, name))
            IN [t |-> Some(normalize(tt)), err |-> NoErr,
                visited |-> inh.visited, done |-> inh.done \cup {name}]

(* the loop of target over t.Inherits, folding into tt *)
inherit(cfg, ov, names, visited, tt, done) ==
  IF names = <<>> THEN [tt |-> tt, err |-> NoErr, visited |-> visited, done |-> done]
  ELSE LET r == target(cfg, ov, Head(names), visited) IN
       IF r.err # NoErr
       THEN [tt |-> tt, err |-> r.err, visited |-> r.visited, done |-> done \cup r.done]
       ELSE inherit(cfg, ov, Tail(names), r.visited,
                    IF r.t # Nil THEN merge(tt, Val(r.t)) ELSE tt, done \cup r.done)

ResolveTarget(cfg, name, ov) ==
  LET r == target(cfg, ov, name, {}) IN
  IF r.err # NoErr THEN [t |-> Nil, err |-> r.err, done |-> r.done]
  ELSE LET t == Val(r.t)
           t1 == IF t.Context = Nil THEN [t EXCEPT !.Context = Some(<<".">>)] ELSE t
           t2 == IF t1.Dockerfile = Nil
                 THEN [t1 EXCEPT !.Dockerfile = Some(<<"D","o","c","k","e","r","f","i","l","e">>)]
                 ELSE t1
       IN [t |-> Some(t2), err |-> NoErr, done |-> r.done]

(* --------------------- in-place effect of normalize -------------------- *)

(* the backing array of a slice after removeDupes has run over it: the     *)
(* kept entries are written to the front, the rest keeps what it held      *)
Compact(s) == LET d == Dedupe(s, {}) IN d \o SubSeq(s, Len(d) + 1, Len(s))

CompactSlice(s) == IF s = Nil THEN Nil ELSE Some(Compact(Val(s)))

(* merge hands over the slice header of tags, platforms, cache-to and      *)
(* output, so normalize in target writes into the array of the override    *)
(* entry when it sets the field, else into the array of the Config's own   *)
(* target; an inherited slice was compacted when the ancestor was resolved *)
overridesAfter(ov, done) ==
  [n \in DOMAIN ov |->
     IF n \in done
     THEN [ov[n] EXCEPT !.Tags = CompactSlice(@), !.Platforms = CompactSlice(@),
                        !.CacheTo = CompactSlice(@), !.Outputs = CompactSlice(@)]
     ELSE ov[n]]

configAfter(cfg, ov, done) ==
  [cfg EXCEPT !.Target =
     [n \in DOMAIN cfg.Target |->
        IF n \in done
        THEN [cfg.Target[n] EXCEPT
                !.Tags = IF At(ov, n).Tags = Nil THEN CompactSlice(@) ELSE @,
                !.Platforms = IF At(ov, n).Platforms = Nil THEN CompactSlice(@) ELSE @,
                !.CacheTo = IF At(ov, n).CacheTo = Nil THEN CompactSlice(@) ELSE @,
                !.Outputs = IF At(ov, n).Outputs = Nil THEN CompactSlice(@) ELSE @]
        ELSE cfg.Target[n]]]

(* ------------------------------ inputs -------------------------------- *)

MaxOverrides == 2

SeqsUpTo(S, n) == UNION {[1..k -> S] : k \in 0..n}

Dot == <<".">>

Eq == <<"=">>

webapp == <<"w","e","b","a","p","p">>
webDEP == <<"w","e","b","D","E","P">>
other == <<"o","t","h","e","r">>
webStar == <<"w","e","b","*">>
db == <<"d","b">>
newservice == <<"n","e","w","s","e","r","v","i","c","e">>
default == <<"d","e","f","a","u","l","t">>
nosuchtarget == <<"n","o","s","u","c","h","t","a","r","g","e","t">>
nomatchStar == <<"n","o","m","a","t","c","h","*">>

VAR_INHERITED == <<"V","_","I","N","H">>
VAR_BOTH == <<"V","_","B","O","T","H">>
VAR_UNSET == <<"V","_","U","N","S","E","T">>
VAR_EMPTY == <<"V","_","E","M","P","T","Y">>
VAR_SET == <<"V","_","S","E","T">>
VAR_FROMENV == <<"V","_","E","N","V">>
buildno == <<"b","u","i","l","d","n","o">>
buildno2 == <<"b","u","i","l","d","n","o","2">>

DockerfileWebapp == <<"D","f",".","w","e","b","a","p","p">>
foo == <<"f","o","o">>
bar == <<"b","a","r">>
bananas == <<"b","a","n","a","n","a","s">>
overrideVal == <<"o","v","e","r","r","i","d","e">>
fromEnv == <<"f","r","o","m","E","n","v">>
true == <<"t","r","u","e">>
notabool == <<"n","o","t","a","b","o","o","l">>
kPlatforms == <<"p","l","a","t","f","o","r","m","s">>
kBogus == <<"b","o","g","u","s">>

(* a target that declares nothing *)
T0 == defaultTarget

(* the config file of TestReadTargets *)
CfgHCL ==
  Config(NoMap,
         (webDEP :> [T0 EXCEPT !.Args = (VAR_INHERITED :> webDEP) @@ (VAR_BOTH :> webDEP)])
         @@ (webapp :> [T0 EXCEPT !.Dockerfile = Some(DockerfileWebapp),
                                  !.Args = (VAR_BOTH :> webapp),
                                  !.Inherits = <<webDEP>>]))

CfgOther == Config(NoMap, (other :> [T0 EXCEPT !.Context = Some(other)]))

(* the two compose files of TestReadTargetsCompose, as parsed *)
CfgCompose1 ==
  Config((default :> <<db, webapp>>),
         (db :> [T0 EXCEPT !.Context = Some(<<".">>)])
         @@ (webapp :> [T0 EXCEPT !.Dockerfile = Some(DockerfileWebapp),
                                  !.Args = (buildno :> <<"1">>)]))

CfgCompose2 ==
  Config((default :> <<newservice, webapp>>),
         (newservice :> [T0 EXCEPT !.Context = Some(<<".">>)])
         @@ (webapp :> [T0 EXCEPT !.Args = (buildno2 :> <<"1","2">>)]))

OvKV(pattern, field, value) == pattern \o Dot \o field \o Eq \o value

OvK(pattern, field) == pattern \o Dot \o field

Arg(k) == kArgs \o Dot \o k

(* the override strings of TestReadTargets *)
OverridesHCL ==
  {OvK(webapp, Arg(VAR_UNSET)), OvKV(webapp, Arg(VAR_EMPTY), <<>>),
   OvKV(webapp, Arg(VAR_SET), bananas), OvK(webapp, Arg(VAR_FROMENV)),
   OvKV(webapp, Arg(VAR_INHERITED), overrideVal),
   OvKV(webDEP, Arg(VAR_INHERITED), overrideVal), OvKV(webDEP, Arg(VAR_BOTH), overrideVal),
   OvK(webapp, kContext), OvKV(webapp, kContext, foo),
   OvKV(webStar, kDockerfile, foo), OvKV(<<"*">>, Arg(VAR_BOTH), bar),
   OvKV(nomatchStar, kDockerfile, foo), OvKV(nosuchtarget, kContext, foo),
   OvK(nosuchtarget, kContext)}

EnvPool == {NoMap, (VAR_FROMENV :> fromEnv)}

InitHCL ==
  /\ files \in {<<CfgHCL>>, <<CfgHCL, CfgOther>>}
  /\ targets \in {<<webapp>>, <<webapp, webDEP>>}
  /\ overrides \in SeqsUpTo(OverridesHCL, MaxOverrides)
  /\ env \in EnvPool

InitCompose ==
  /\ files = <<CfgCompose1, CfgCompose2>>
  /\ targets \in {<<default>>, <<webapp>>}
  /\ overrides \in SeqsUpTo({OvKV(webapp, Arg(buildno), foo), OvKV(<<"*">>, kContext, foo)}, MaxOverrides)
  /\ env = NoMap

(* inheritance graphs over webapp, webDEP and other: chains, two parents in *)
(* either order, shared ancestors, cycles and a missing ancestor            *)
CfgGraph(ia, ib, ic, ca, cb, cc) ==
  Config(NoMap,
         (webapp :> [T0 EXCEPT !.Inherits = ia, !.Context = ca,
                               !.Args = (VAR_BOTH :> webapp)])
         @@ (webDEP :> [T0 EXCEPT !.Inherits = ib, !.Context = cb,
                                  !.Args = (VAR_INHERITED :> webDEP) @@ (VAR_BOTH :> webDEP)])
         @@ (other :> [T0 EXCEPT !.Inherits = ic, !.Context = cc,
                                 !.Dockerfile = Some(other)]))

GraphConfigs ==
  {CfgGraph(ia, ib, ic, ca, cb, cc) :
     ia \in {<<>>, <<webDEP>>, <<webDEP, other>>, <<other, webDEP>>, <<webDEP, nosuchtarget>>},
     ib \in {<<>>, <<other>>, <<webapp>>},
     ic \in {<<>>, <<webDEP>>},
     ca \in {Nil, Some(foo)},
     cb \in {Nil, Some(bar)},
     cc \in {Nil, Some(<<".">>)}}

OverridesGraph ==
  {OvKV(webapp, kContext, bananas), OvKV(webDEP, kContext, overrideVal),
   OvKV(other, Arg(VAR_INHERITED), overrideVal), OvKV(<<"o","*">>, kDockerfile, <<"D","o","c","k","e","r","f","i","l","e">>)}

InitGraph ==
  /\ files \in {<<cfg>> : cfg \in GraphConfigs}
  /\ targets \in {<<webapp>>, <<other, webapp>>}
  /\ overrides \in SeqsUpTo(OverridesGraph, MaxOverrides)
  /\ env = NoMap

(* targets with list and boolean fields, redeclared by a second file *)
la == <<"a">>

lb == <<"b">>

CfgLists ==
  Config((default :> <<webapp, default, webDEP>>),
         (webDEP :> [T0 EXCEPT !.Tags = Some(<<lb, lb>>), !.Secrets = Some(<<lb>>),
                               !.CacheFrom = Some(<<la, lb>>), !.Platforms = Some(<<la>>),
                               !.Labels = (la :> la) @@ (lb :> la),
                               !.Target = Some(lb), !.Pull = TRUE])
         @@ (webapp :> [T0 EXCEPT !.Inherits = <<webDEP>>,
                                  !.Tags = Some(<<la, la, lb>>), !.Secrets = Some(<<la, lb>>),
                                  !.SSH = Some(<<la>>), !.CacheTo = Some(<<lb, la, lb>>),
                                  !.Outputs = Some(<<>>), !.Labels = (lb :> lb),
                                  !.NoCache = TRUE]))

CfgLists2 ==
  Config((default :> <<webDEP, other>>),
         (webapp :> [T0 EXCEPT !.Inherits = <<other>>, !.Context = Some(foo),
                               !.Tags = Some(<<lb>>), !.Secrets = Some(<<la>>),
                               !.CacheFrom = Some(<<la>>), !.Outputs = Some(<<la, la>>),
                               !.Labels = (la :> lb), !.Target = Some(la)])
         @@ (other :> [T0 EXCEPT !.SSH = Some(<<lb>>), !.Platforms = Some(<<lb, lb>>)]))

ListKeys == {kTags, kCacheFrom, kCacheTo, kSecrets, kSSH, kPlatform, kOutput}

OverridesLists ==
  {OvKV(webStar, k, la) : k \in ListKeys}
  \cup {OvKV(webapp, k, lb) : k \in ListKeys}
  \cup {OvKV(webapp, kPlatforms, la), OvKV(webapp, kBogus, la),
        OvKV(webapp, kNoCache, true), OvKV(webDEP, kPull, true),
        OvKV(webapp, kNoCache, notabool), OvKV(webapp, kLabels \o Dot \o la, bar),
        OvK(webapp, kTags), OvK(webapp, kArgs), webapp}

InitLists ==
  /\ files \in {<<CfgLists>>, <<CfgLists, CfgLists2>>}
  /\ targets \in {<<webapp>>, <<default>>}
  /\ overrides \in SeqsUpTo(OverridesLists, MaxOverrides)
  /\ env = NoMap

(* a target whose name reads as a glob *)
CfgGlobName ==
  Config(NoMap,
         (webStar :> [T0 EXCEPT !.Context = Some(webStar)])
         @@ (webapp :> [T0 EXCEPT !.Inherits = <<webStar>>])
         @@ (other :> T0))

OverridesGlobName ==
  {OvKV(webStar, kContext, foo), OvKV(<<"w","e","b","?">>, kContext, bar),
   OvKV(<<"*">>, kDockerfile, foo), OvKV(<<"?","*","r">>, kContext, bananas),
   OvKV(<<"w","e","b">>, kContext, foo)}

InitGlobName ==
  /\ files = <<CfgGlobName>>
  /\ targets \in {<<webapp>>, <<webStar, other>>}
  /\ overrides \in SeqsUpTo(OverridesGlobName, MaxOverrides)
  /\ env = NoMap

(* groups that contain one another, themselves and a name twice *)
CfgGroups(gd, gdb, gn) ==
  Config((default :> gd) @@ (db :> gdb) @@ (newservice :> gn),
         (webapp :> [T0 EXCEPT !.Inherits = <<webDEP>>, !.Context = Some(foo)])
         @@ (webDEP :> [T0 EXCEPT !.Inherits = <<webapp>>, !.Dockerfile = Some(bar)])
         @@ (other :> T0))

GroupConfigs ==
  {CfgGroups(gd, gdb, gn) :
     gd \in {<<webapp, db, default, webDEP>>, <<newservice, db>>, <<default>>},
     gdb \in {<<other, newservice, webapp>>, <<webapp>>, <<default, nosuchtarget>>},
     gn \in {<<db, default, other>>, <<>>, <<webDEP, webDEP>>}}

InitGroups ==
  /\ files \in {<<cfg>> : cfg \in GroupConfigs}
  /\ targets \in {<<default>>, <<db, webapp>>, <<newservice, default>>, <<webapp, nosuchtarget>>}
  /\ overrides = <<>>
  /\ env = NoMap

(* ---------------------------- ReadTargets ----------------------------- *)

Init ==
  /\ InitHCL \/ InitCompose \/ InitGraph \/ InitLists \/ InitGlobName \/ InitGroups
  /\ pc = IF files = <<>> THEN "overrides" ELSE "files"
  /\ fi = 1
  /\ oi = 1
  /\ ti = 1
  /\ pending = <<>>
  /\ c = EmptyConfig
  /\ o = NoMap
  /\ m = NoMap
  /\ err = NoErr
  /\ stack = <<>>
  /\ visitedMap = {}

(* one iteration of the loop over files: c = mergeConfig(c, *cfg) *)
MergeFile ==
  /\ pc = "files"
  /\ fi <= Len(files)
  /\ c' = mergeConfig(c, files[fi])
  /\ fi' = fi + 1
  /\ pc' = IF fi = Len(files) THEN "overrides" ELSE "files"
  /\ UNCHANGED <<inputs, stack, visitedMap, oi, ti, pending, o, m, err>>

(* one iteration of the loop of newOverrides; an error returns nil, err *)
NewOverride ==
  /\ pc = "overrides"
  /\ oi <= Len(overrides)
  /\ LET r == override(c, o, overrides[oi], env) IN
     IF r.err # NoErr
     THEN /\ err' = r.err
          /\ o' = NoMap
          /\ pc' = "done"
          /\ UNCHANGED oi
     ELSE /\ o' = r.m
          /\ oi' = oi + 1
          /\ UNCHANGED <<pc, err>>
  /\ UNCHANGED <<inputs, stack, visitedMap, fi, ti, pending, c, m>>

(* newOverrides returns the table; m := map[string]Target{} *)
OverridesDone ==
  /\ pc = "overrides"
  /\ oi > Len(overrides)
  /\ pc' = "targets"
  /\ m' = NoMap
  /\ UNCHANGED <<inputs, stack, visitedMap, fi, oi, ti, pending, c, o, err>>

(* the outer loop over targets: the names of c.ResolveGroup(n) *)
ExpandGroup ==
  /\ pc = "targets"
  /\ pending = <<>>
  /\ ti <= Len(targets)
  /\ pending' = ResolveGroup(c, targets[ti])
  /\ ti' = ti + 1
  /\ UNCHANGED <<inputs, stack, visitedMap, pc, fi, oi, c, o, m, err>>

(* ResolveNext also storing every target resolved on the way *)
ResolveNextStoresInherited ==
  /\ pc = "targets"
  /\ pending # <<>>
  /\ LET n == Head(pending)
         r == ResolveTarget(c, n, o)
     IN
     /\ c' = configAfter(c, o, r.done)
     /\ o' = overridesAfter(o, r.done)
     /\ IF r.err # NoErr
        THEN /\ err' = r.err
             /\ m' = NoMap
             /\ pc' = "done"
             /\ UNCHANGED pending
        ELSE /\ m' = [x \in DOMAIN m \cup r.done |->
                        IF x = n THEN Val(r.t)
                        ELSE IF x \in DOMAIN m THEN m[x]
                        ELSE Val(ResolveTarget(c, x, o).t)]
             /\ pending' = Tail(pending)
             /\ UNCHANGED <<pc, err>>
  /\ UNCHANGED <<inputs, stack, visitedMap, fi, oi, ti>>

(* ResolveNext returning the targets resolved before the error *)
ResolveNextKeepsResolved ==
  /\ pc = "targets"
  /\ pending # <<>>
  /\ LET n == Head(pending)
         r == ResolveTarget(c, n, o)
     IN
     /\ c' = configAfter(c, o, r.done)
     /\ o' = overridesAfter(o, r.done)
     /\ IF r.err # NoErr
        THEN /\ err' = r.err
             /\ pc' = "done"
             /\ UNCHANGED <<pending, m>>
        ELSE /\ m' = Put(m, n, Val(r.t))
             /\ pending' = Tail(pending)
             /\ UNCHANGED <<pc, err>>
  /\ UNCHANGED <<inputs, stack, visitedMap, fi, oi, ti>>

(* the inner loop: t, err := c.ResolveTarget(n, o); m[n] = *t *)
ResolveNext ==
  /\ pc = "targets"
  /\ pending # <<>>
  /\ LET n == Head(pending)
         r == ResolveTarget(c, n, o)
     IN
     /\ c' = configAfter(c, o, r.done)
     /\ o' = overridesAfter(o, r.done)
     /\ IF r.err # NoErr
        THEN /\ err' = r.err
             /\ m' = NoMap
             /\ pc' = "done"
             /\ UNCHANGED pending
        ELSE /\ m' = Put(m, n, Val(r.t))
             /\ pending' = Tail(pending)
             /\ UNCHANGED <<pc, err>>
  /\ UNCHANGED <<inputs, stack, visitedMap, fi, oi, ti>>

(* return m, nil *)
Return ==
  /\ pc = "targets"
  /\ pending = <<>>
  /\ ti > Len(targets)
  /\ pc' = "done"
  /\ UNCHANGED <<inputs, stack, visitedMap, fi, oi, ti, pending, c, o, m, err>>

Next == MergeFile \/ NewOverride \/ OverridesDone \/ ExpandGroup \/ ResolveNext \/ Return

Spec == Init /\ [][Next]_vars

TypeOK ==
  /\ pc \in {"files", "overrides", "targets", "group", "target", "done"}
  /\ fi \in 1..(Len(files) + 1)
  /\ oi \in 1..(Len(overrides) + 1)
  /\ ti \in 1..(Len(targets) + 1)

(* ------------------- ResolveGroup and ResolveTarget -------------------- *)
(* ------------------------- one call at a time -------------------------- *)

(* the deepest nesting of calls of group or target that is followed *)
MaxDepth == 4

(* the frame of one call of group: the loop index over g.Targets and the   *)
(* local targets; of one call of target: the index over t.Inherits and tt  *)
groupFrame(name) == [name |-> name, i |-> 1, targets |-> <<>>]

targetFrame(name) == [name |-> name, i |-> 1, tt |-> defaultTarget]

(* stack holds the frames of the calls under way, visitedMap the map named *)
(* visited that they share                                                *)
Top == stack[Len(stack)]

Caller == stack[Len(stack) - 1]

Resume(frame) == SubSeq(stack, 1, Len(stack) - 2) \o <<frame>>

InitCalls ==
  /\ \/ /\ files \in {<<cfg>> : cfg \in GraphConfigs}
        /\ targets \in {<<webapp>>, <<other, webapp>>}
        /\ overrides \in SeqsUpTo(OverridesGraph, 1)
        /\ env = NoMap
     \/ InitGroups
     \/ /\ files = <<CfgLists, CfgLists2>>
        /\ targets = <<default>>
        /\ overrides \in SeqsUpTo(OverridesLists, 1)
        /\ env = NoMap
  /\ pc = IF files = <<>> THEN "overrides" ELSE "files"
  /\ fi = 1
  /\ oi = 1
  /\ ti = 1
  /\ pending = <<>>
  /\ c = EmptyConfig
  /\ o = NoMap
  /\ m = NoMap
  /\ err = NoErr
  /\ stack = <<>>
  /\ visitedMap = {}

(* c.ResolveGroup(n): the outermost call of group, with an empty visited *)
ResolveGroupCall ==
  /\ pc = "targets"
  /\ pending = <<>>
  /\ ti <= Len(targets)
  /\ ti' = ti + 1
  /\ LET name == targets[ti] IN
     IF ~Has(c.Group, name)
     THEN /\ pending' = <<name>>
          /\ UNCHANGED <<pc, stack, visitedMap>>
     ELSE /\ stack' = <<groupFrame(name)>>
          /\ visitedMap' = {name}
          /\ pc' = "group"
          /\ UNCHANGED pending
  /\ UNCHANGED <<inputs, fi, oi, c, o, m, err>>

(* one iteration of the loop of group: c.group(t, visited) *)
groupStep ==
  /\ pc = "group"
  /\ Top.i <= Len(c.Group[Top.name])
  /\ LET name == c.Group[Top.name][Top.i] IN
     IF name \in visitedMap
     THEN /\ stack' = [stack EXCEPT ![Len(stack)].i = @ + 1]
          /\ UNCHANGED visitedMap
     ELSE IF ~Has(c.Group, name)
     THEN /\ stack' = [stack EXCEPT ![Len(stack)].i = @ + 1,
                                    ![Len(stack)].targets = Append(@, name)]
          /\ UNCHANGED visitedMap
     ELSE /\ Len(stack) < MaxDepth
          /\ stack' = Append(stack, groupFrame(name))
          /\ visitedMap' = visitedMap \cup {name}
  /\ UNCHANGED <<inputs, pc, fi, oi, ti, pending, c, o, m, err>>

(* return targets: appended to the caller's targets, or handed to ReadTargets *)
groupReturn ==
  /\ pc = "group"
  /\ Top.i > Len(c.Group[Top.name])
  /\ IF Len(stack) = 1
     THEN /\ pending' = Top.targets
          /\ stack' = <<>>
          /\ visitedMap' = {}
          /\ pc' = "targets"
     ELSE /\ stack' = Resume([Caller EXCEPT !.i = @ + 1, !.targets = @ \o Top.targets])
          /\ UNCHANGED <<pending, visitedMap, pc>>
  /\ UNCHANGED <<inputs, fi, oi, ti, c, o, m, err>>

(* c.ResolveTarget(n, o): the outermost call of target, with an empty visited *)
ResolveTargetCall ==
  /\ pc = "targets"
  /\ pending # <<>>
  /\ LET name == Head(pending) IN
     IF ~Has(c.Target, name)
     THEN /\ err' = Errorf("failed to find target", name)
          /\ m' = NoMap
          /\ pc' = "done"
          /\ UNCHANGED <<stack, visitedMap>>
     ELSE /\ stack' = <<targetFrame(name)>>
          /\ visitedMap' = {name}
          /\ pc' = "target"
          /\ UNCHANGED <<m, err>>
  /\ UNCHANGED <<inputs, fi, oi, ti, pending, c, o>>

(* targetStep following an inherits entry whether or not it was visited *)
targetStepRevisits ==
  /\ pc = "target"
  /\ Top.i <= Len(c.Target[Top.name].Inherits)
  /\ LET name == c.Target[Top.name].Inherits[Top.i] IN
     IF ~Has(c.Target, name)
     THEN /\ err' = Errorf("failed to find target", name)
          /\ m' = NoMap
          /\ pc' = "done"
          /\ stack' = <<>>
          /\ visitedMap' = {}
     ELSE /\ Len(stack) < MaxDepth
          /\ stack' = Append(stack, targetFrame(name))
          /\ visitedMap' = visitedMap \cup {name}
          /\ UNCHANGED <<m, err, pc>>
  /\ UNCHANGED <<inputs, fi, oi, ti, pending, c, o>>

(* one iteration of the loop of target: c.target(name, visited, overrides); *)
(* an error is returned by every caller in turn                             *)
targetStep ==
  /\ pc = "target"
  /\ Top.i <= Len(c.Target[Top.name].Inherits)
  /\ LET name == c.Target[Top.name].Inherits[Top.i] IN
     IF name \in visitedMap
     THEN /\ stack' = [stack EXCEPT ![Len(stack)].i = @ + 1]
          /\ UNCHANGED <<m, err, pc, visitedMap>>
     ELSE IF ~Has(c.Target, name)
     THEN /\ err' = Errorf("failed to find target", name)
          /\ m' = NoMap
          /\ pc' = "done"
          /\ stack' = <<>>
          /\ visitedMap' = {}
     ELSE /\ Len(stack) < MaxDepth
          /\ stack' = Append(stack, targetFrame(name))
          /\ visitedMap' = visitedMap \cup {name}
          /\ UNCHANGED <<m, err, pc>>
  /\ UNCHANGED <<inputs, fi, oi, ti, pending, c, o>>

(* the end of target: the merges, normalize and return &tt; the caller     *)
(* merges it into its tt, ResolveTarget fills the fallbacks, m[n] = *t     *)
targetReturn ==
  /\ pc = "target"
  /\ Top.i > Len(c.Target[Top.name].Inherits)
  /\ LET name == Top.name
         own == [c.Target[name] EXCEPT !.Inherits = <<>>]
         tt == normalize(merge(merge(merge(defaultTarget, Top.tt), own), At(o, name)))
         t1 == IF tt.Context = Nil THEN [tt EXCEPT !.Context = Some(<<".">>)] ELSE tt
         t2 == IF t1.Dockerfile = Nil
               THEN [t1 EXCEPT !.Dockerfile = Some(<<"D","o","c","k","e","r","f","i","l","e">>)]
               ELSE t1
     IN
     /\ c' = configAfter(c, o, {name})
     /\ o' = overridesAfter(o, {name})
     /\ IF Len(stack) = 1
        THEN /\ m' = Put(m, name, t2)
             /\ pending' = Tail(pending)
             /\ stack' = <<>>
             /\ visitedMap' = {}
             /\ pc' = "targets"
        ELSE /\ stack' = Resume([Caller EXCEPT !.i = @ + 1, !.tt = merge(@, tt)])
             /\ UNCHANGED <<m, pending, visitedMap, pc>>
  /\ UNCHANGED <<inputs, fi, oi, ti, err>>

NextCalls ==
  \/ MergeFile \/ NewOverride \/ OverridesDone
  \/ ResolveGroupCall \/ groupStep \/ groupReturn
  \/ ResolveTargetCall \/ targetStep \/ targetReturn
  \/ Return

SpecCalls == InitCalls /\ [][NextCalls]_vars

(* ============================ properties ============================== *)

Succeeded == pc = "done" /\ err = NoErr

(* a scalar field, or one key of args or labels *)
Fld(kind, key) == [kind |-> kind, key |-> key]

ArgKeys == {VAR_INHERITED, VAR_BOTH, VAR_UNSET, VAR_EMPTY, VAR_SET, VAR_FROMENV, buildno, buildno2}

LabelKeys == {la, lb}

ScalarFlds == {Fld("Context", <<>>), Fld("Dockerfile", <<>>), Fld("Target", <<>>)}

Flds == ScalarFlds \cup {Fld("Args", k) : k \in ArgKeys} \cup {Fld("Labels", k) : k \in LabelKeys}

(* the value of field f in t, Nil when t does not set it *)
Get(t, f) ==
  CASE f.kind = "Context" -> t.Context
    [] f.kind = "Dockerfile" -> t.Dockerfile
    [] f.kind = "Target" -> t.Target
    [] f.kind = "Args" -> IF f.key \in DOMAIN t.Args THEN <<t.Args[f.key]>> ELSE <<>>
    [] f.kind = "Labels" -> IF f.key \in DOMAIN t.Labels THEN <<t.Labels[f.key]>> ELSE <<>>

Fallback(f) ==
  CASE f.kind = "Context" -> <<<<".">>>>
    [] f.kind = "Dockerfile" -> <<<<"D","o","c","k","e","r","f","i","l","e">>>>
    [] OTHER -> <<>>

Declared(T, f) == IF T \in DOMAIN c.Target THEN Get(c.Target[T], f) ELSE <<>>

Overridden(T, f) == IF T \in DOMAIN o THEN Get(o[T], f) ELSE <<>>

Parents(T) == IF T \in DOMAIN c.Target THEN c.Target[T].Inherits ELSE <<>>

(* the targets met walking the inherits lists from T, every path followed, *)
(* to depth d                                                              *)
RECURSIVE Walk(_, _)
RECURSIVE WalkEach(_, _)
Walk(T, d) == IF d = 0 THEN <<T>> ELSE <<T>> \o WalkEach(Parents(T), d - 1)

WalkEach(ps, d) == IF ps = <<>> THEN <<>> ELSE Walk(Head(ps), d) \o WalkEach(Tail(ps), d)

WalkFrom(T) == Walk(T, Cardinality(DOMAIN c.Target))

Reachable(T) == LET w == WalkFrom(T) IN {w[i] : i \in 1..Len(w)}

Ancestors(T) == LET w == WalkFrom(T) IN {w[i] : i \in 2..Len(w)}

(* no target is met twice from T (no cycle, no shared ancestor) and none is missing *)
IsTree(T) ==
  LET w == WalkFrom(T) IN
  /\ Cardinality({w[i] : i \in 1..Len(w)}) = Len(w)
  /\ {w[i] : i \in 1..Len(w)} \subseteq DOMAIN c.Target

(* the precedence chain, read off the claim: override, else own, else the  *)
(* last listed parent whose chain gives a value                            *)
RECURSIVE Chain(_, _)
RECURSIVE ChainOfParents(_, _)
Chain(T, f) ==
  IF Overridden(T, f) # <<>> THEN Overridden(T, f)
  ELSE IF Declared(T, f) # <<>> THEN Declared(T, f)
  ELSE ChainOfParents(Parents(T), f)

ChainOfParents(ps, f) ==
  IF ps = <<>> THEN <<>>
  ELSE IF Chain(ps[Len(ps)], f) # <<>> THEN Chain(ps[Len(ps)], f)
  ELSE ChainOfParents(SubSeq(ps, 1, Len(ps) - 1), f)

OrFallback(v, f) == IF v = <<>> THEN Fallback(f) ELSE v

(* C1: every resolved target T has, for every scalar field and every args  *)
(* or labels key, the value of the override addressed at T if there is one, *)
(* else T's own declared value if there is one, else the value its inherits *)
(* chain gives (a value set somewhere in the chain, and where no target is  *)
(* met twice the one of the last listed parent that has one).              *)
C1_PrecedenceChain ==
  \A T \in DOMAIN m :
    /\ LET anc == Ancestors(T)
           tree == IsTree(T)
       IN \A f \in Flds :
            /\ Overridden(T, f) # <<>> => Get(m[T], f) = Overridden(T, f)
            /\ Overridden(T, f) = <<>> /\ Declared(T, f) # <<>> => Get(m[T], f) = Declared(T, f)
            /\ Overridden(T, f) = <<>> /\ Declared(T, f) = <<>> =>
                 /\ Get(m[T], f) \in {Fallback(f)} \cup {Declared(A, f) : A \in anc}
                                        \cup {Overridden(A, f) : A \in anc}
                 /\ tree => Get(m[T], f) = OrFallback(ChainOfParents(Parents(T), f), f)
    /\ (files = <<CfgHCL>> /\ ~(\E n \in DOMAIN o : VAR_BOTH \in DOMAIN o[n].Args) /\ T = webapp) =>
         /\ m[T].Args[VAR_BOTH] = webapp
         /\ m[T].Args[VAR_INHERITED] = IF \E n \in DOMAIN o : VAR_INHERITED \in DOMAIN o[n].Args
                                       THEN overrideVal ELSE webDEP

C1_Witness ==
  /\ Succeeded
  /\ files = <<CfgHCL>>
  /\ overrides = <<OvKV(webapp, Arg(VAR_INHERITED), overrideVal)>>
  /\ webapp \in DOMAIN m
  /\ m[webapp].Args[VAR_INHERITED] = overrideVal
  /\ m[webapp].Args[VAR_BOTH] = webapp
  /\ m[webapp].Dockerfile = <<DockerfileWebapp>>

(* a single-parent path from D up to A on which only A has a say on f *)
RECURSIVE SoleHeir(_, _, _, _)
SoleHeir(D, A, f, d) ==
  /\ d > 0
  /\ Overridden(D, f) = <<>>
  /\ Declared(D, f) = <<>>
  /\ Len(Parents(D)) = 1
  /\ \/ Parents(D)[1] = A
     \/ SoleHeir(Parents(D)[1], A, f, d - 1)

(* C2: an override addressed at an ancestor A of a resolved target D shows  *)
(* in D only where D does not redeclare: a field or key D declares itself   *)
(* (and is not overridden on) keeps D's own value, and one that neither D   *)
(* nor any target between D and A sets has A's override value.             *)
C2_AncestorOverride ==
  \A D \in DOMAIN m : \A A \in (Ancestors(D) \cap DOMAIN o) \ {D} : \A f \in Flds :
    Overridden(A, f) # <<>> /\ Overridden(D, f) = <<>> =>
      /\ Declared(D, f) # <<>> => Get(m[D], f) = Declared(D, f)
      /\ SoleHeir(D, A, f, Cardinality(DOMAIN c.Target)) => Get(m[D], f) = Overridden(A, f)

C2_Witness ==
  /\ Succeeded
  /\ files = <<CfgHCL>>
  /\ targets = <<webapp>>
  /\ overrides = <<OvKV(webDEP, Arg(VAR_INHERITED), overrideVal), OvKV(webDEP, Arg(VAR_BOTH), overrideVal)>>
  /\ m[webapp].Args[VAR_INHERITED] = overrideVal
  /\ m[webapp].Args[VAR_BOTH] = webapp

(* the parts of an override string <pattern>.<field>[.<subkey>][=<value>] *)
HasValue(v) == Index(v, "=") # 0

KeyPart(v) == IF HasValue(v) THEN SubSeq(v, 1, Index(v, "=") - 1) ELSE v

ValueOf(v) == SubSeq(v, Index(v, "=") + 1, Len(v))

AfterDot(k) == IF Index(k, ".") = 0 THEN <<>> ELSE SubSeq(k, Index(k, ".") + 1, Len(k))

UpToDot(k) == IF Index(k, ".") = 0 THEN k ELSE SubSeq(k, 1, Index(k, ".") - 1)

PatternOf(v) == UpToDot(KeyPart(v))

HasField(v) == Index(KeyPart(v), ".") # 0

FieldOf(v) == UpToDot(AfterDot(KeyPart(v)))

HasSubkey(v) == Index(AfterDot(KeyPart(v)), ".") # 0

SubkeyOf(v) == AfterDot(AfterDot(KeyPart(v)))

(* the targets a pattern addresses: the target of that name if there is    *)
(* one, else the targets whose name the glob matches                       *)
Addressed(pattern) ==
  IF pattern \in DOMAIN c.Target THEN {pattern}
  ELSE {n \in DOMAIN c.Target : Match(pattern, n)}

(* the entry t holds what override string v sets *)
Recorded(t, v) ==
  CASE FieldOf(v) = kContext -> t.Context = <<ValueOf(v)>>
    [] FieldOf(v) = kDockerfile -> t.Dockerfile = <<ValueOf(v)>>
    [] FieldOf(v) = kTarget -> t.Target = <<ValueOf(v)>>
    [] FieldOf(v) = kArgs /\ HasValue(v) ->
         SubkeyOf(v) \in DOMAIN t.Args /\ t.Args[SubkeyOf(v)] = ValueOf(v)
    [] OTHER -> TRUE

C3_Step ==
  (pc = "overrides" /\ oi' = oi + 1) =>
    LET v == overrides[oi]
        A == Addressed(PatternOf(v))
    IN /\ A # {}
       /\ DOMAIN o' = DOMAIN o \cup A
       /\ \A n \in A : Recorded(o'[n], v)
       /\ \A n \in DOMAIN o \ A : o'[n] = o[n]
       /\ (PatternOf(v) = webStar /\ DOMAIN c.Target = {webapp, webDEP, other}) =>
            /\ A = {webapp, webDEP}
            /\ other \in DOMAIN o' => (other \in DOMAIN o /\ o'[other] = o[other])

(* C3: an accepted override string is recorded for the target named by its *)
(* pattern when such a target exists, and otherwise for exactly the targets *)
(* whose name the pattern matches as a glob; no other entry of the override *)
(* table changes (web* over webapp, webDEP, other addresses webapp, webDEP). *)
C3_PatternExpansion == [][C3_Step]_vars

C3_Witness ==
  /\ pc = "overrides"
  /\ oi = 2
  /\ overrides[1] = OvKV(webStar, kDockerfile, foo)
  /\ DOMAIN c.Target = {webapp, webDEP, other}
  /\ DOMAIN o = {webapp, webDEP}
  /\ o[webapp].Dockerfile = <<foo>>
  /\ o[webDEP].Dockerfile = <<foo>>

NoMatch(i) == Addressed(PatternOf(overrides[i])) = {}

WellFormed(v) == HasField(v) /\ (HasValue(v) \/ FieldOf(v) = kArgs)

NoMatchError(pattern) == [msg |-> "could not find any target matching", arg |-> pattern]

ListOf(x) == IF x = <<>> THEN <<>> ELSE x[1]

ReplacedFields == {"Context", "Dockerfile", "Target", "Tags", "Platforms", "Outputs", "CacheTo"}

AppendedFields == {"Secrets", "SSH", "CacheFrom"}

UnionIncomingWins(base, incoming, res) ==
  /\ DOMAIN res = DOMAIN base \cup DOMAIN incoming
  /\ \A k \in DOMAIN res : res[k] = IF k \in DOMAIN incoming THEN incoming[k] ELSE base[k]

(* res is base merged with incoming by the field-level rule *)
MergedAs(base, incoming, res) ==
  /\ UnionIncomingWins(base.Args, incoming.Args, res.Args)
  /\ UnionIncomingWins(base.Labels, incoming.Labels, res.Labels)
  /\ \A F \in ReplacedFields : res[F] = IF incoming[F] # <<>> THEN incoming[F] ELSE base[F]
  /\ \A F \in AppendedFields :
       IF incoming[F] = <<>> THEN res[F] = base[F]
       ELSE ListOf(res[F]) = ListOf(base[F]) \o ListOf(incoming[F])
  /\ incoming.Inherits = <<>> => res.Inherits = base.Inherits
  /\ ~incoming.Pull => res.Pull = base.Pull
  /\ ~incoming.NoCache => res.NoCache = base.NoCache

(* res is own merged with the override entry ov, then normalized *)
ResolvedAs(own, ov, res) ==
  /\ UnionIncomingWins(own.Args, ov.Args, res.Args)
  /\ UnionIncomingWins(own.Labels, ov.Labels, res.Labels)
  /\ res.Target = IF ov.Target # <<>> THEN ov.Target ELSE own.Target
  /\ \A F \in {"Tags", "Platforms", "Outputs", "CacheTo"} :
       IF ov[F] # <<>> THEN res[F] = <<Dedupe(ov[F][1], {})>>
       ELSE IF own[F] # <<>> THEN res[F] = <<Dedupe(own[F][1], {})>>
       ELSE res[F] = <<>>
  /\ \A F \in AppendedFields :
       IF ov[F] = <<>> /\ own[F] = <<>> THEN res[F] = <<>>
       ELSE ListOf(res[F]) = Dedupe(ListOf(own[F]) \o ListOf(ov[F]), {})

Setters(T, f) ==
  ({Declared(n, f) : n \in Reachable(T)} \cup {Overridden(n, f) : n \in Reachable(T)}) \ {<<>>}

(* C6 as stated: every returned target has context and dockerfile set, and *)
(* the value is the fallback exactly when nothing sets the field.          *)
C6_FallbackExactlyWhenUnset ==
  \A T \in DOMAIN m : \A f \in {Fld("Context", <<>>), Fld("Dockerfile", <<>>)} :
    /\ Get(m[T], f) # <<>>
    /\ Get(m[T], f) = Fallback(f) <=> Setters(T, f) = {}

(* C6 amended: every returned target has context and dockerfile set; the   *)
(* value is the fallback when nothing sets the field, and when something   *)
(* sets it the value is one of the values set (so a target of the chain    *)
(* that lacks the field never puts the fallback in place of one).          *)
C6_FallbackWhenUnset ==
  \A T \in DOMAIN m : \A f \in {Fld("Context", <<>>), Fld("Dockerfile", <<>>)} :
    /\ Get(m[T], f) # <<>>
    /\ Setters(T, f) = {} => Get(m[T], f) = Fallback(f)
    /\ Setters(T, f) # {} => Get(m[T], f) \in Setters(T, f)

C6_Witness ==
  /\ Succeeded
  /\ files = <<CfgGraph(<<webDEP, other>>, <<>>, <<>>, Nil, Some(bar), Nil)>>
  /\ targets = <<other, webapp>>
  /\ overrides = <<>>
  /\ m[other].Context = <<<<".">>>>
  /\ m[webapp].Context = <<bar>>
  /\ m[webapp].Dockerfile = <<other>>

Names(q) == {q[i] : i \in 1..Len(q)}

(* C7: the map of a successful ReadTargets has an entry for exactly the    *)
(* names the Group Resolver expands the requested names to; targets only   *)
(* inherited or only addressed by an override are not in it.               *)
C7_ExactlyRequested ==
  Succeeded =>
    /\ DOMAIN m = UNION {Names(ResolveGroup(c, targets[i])) : i \in 1..Len(targets)}
    /\ (targets = <<webapp>> /\ DOMAIN c.Group = {}) => DOMAIN m = {webapp}
    /\ (targets = <<webapp, webDEP>> /\ DOMAIN c.Group = {}) => DOMAIN m = {webapp, webDEP}

C7_Witness ==
  /\ Succeeded
  /\ files = <<CfgHCL>>
  /\ targets = <<webapp>>
  /\ overrides = <<OvKV(webStar, kDockerfile, foo)>>
  /\ webDEP \in DOMAIN o
  /\ DOMAIN m = {webapp}
  /\ m[webapp].Args[VAR_INHERITED] = webDEP

C8_Step ==
  (pc = "overrides" /\ oi <= Len(overrides) /\ pc' # "targets") =>
    LET v == overrides[oi]
        K == SubkeyOf(v)
        A == Addressed(PatternOf(v))
    IN /\ (~HasValue(v) /\ FieldOf(v) # kArgs) => (err' # NoErr /\ pc' = "done")
       /\ (~HasValue(v) /\ FieldOf(v) = kArgs /\ HasSubkey(v) /\ A # {}) =>
            /\ err' = NoErr
            /\ \A n \in A :
                 IF K \in DOMAIN env
                 THEN K \in DOMAIN o'[n].Args /\ o'[n].Args[K] = env[K]
                 ELSE /\ K \in DOMAIN o'[n].Args <=> K \in DOMAIN At(o, n).Args
                      /\ K \in DOMAIN o'[n].Args => o'[n].Args[K] = o[n].Args[K]
       /\ (HasValue(v) /\ ValueOf(v) = <<>> /\ FieldOf(v) = kArgs /\ HasSubkey(v) /\ A # {}) =>
            /\ err' = NoErr
            /\ \A n \in A : K \in DOMAIN o'[n].Args /\ o'[n].Args[K] = <<>>

C8_Resolved ==
  \A T \in DOMAIN m : \A K \in ArgKeys :
    /\ Setters(T, Fld("Args", K)) = {} => K \notin DOMAIN m[T].Args
    /\ Overridden(T, Fld("Args", K)) = <<<<>>>> => (K \in DOMAIN m[T].Args /\ m[T].Args[K] = <<>>)

(* C8: an override string without "=" is rejected unless its field is args; *)
(* T.args.K without "=" sets arg K of T to the environment variable K when  *)
(* it exists and otherwise leaves K as it was, absent from the resolved     *)
(* args if nothing sets it; T.args.K= sets K to the empty string, present   *)
(* in the resolved args.                                                    *)
C8_ValuelessOverrides == [][C8_Step]_vars /\ []C8_Resolved

C8_Witness ==
  /\ Succeeded
  /\ files = <<CfgHCL>>
  /\ env = NoMap
  /\ overrides = <<OvK(webapp, Arg(VAR_UNSET)), OvKV(webapp, Arg(VAR_EMPTY), <<>>)>>
  /\ DOMAIN m[webapp].Args = {VAR_INHERITED, VAR_BOTH, VAR_EMPTY}
  /\ m[webapp].Args[VAR_EMPTY] = <<>>

(* C9: a target overridden with no-cache=true (pull=true) resolves with    *)
(* its no-cache (pull) flag true.                                          *)
C9_BooleanOverride ==
  \A T \in DOMAIN m :
    /\ At(o, T).NoCache => m[T].NoCache
    /\ At(o, T).Pull => m[T].Pull

KeyField(k) ==
  CASE k = kTags -> "Tags"
    [] k = kCacheFrom -> "CacheFrom"
    [] k = kCacheTo -> "CacheTo"
    [] k = kSecrets -> "Secrets"
    [] k = kSSH -> "SSH"
    [] k = kPlatform -> "Platforms"
    [] k = kPlatforms -> "Platforms"
    [] k = kOutput -> "Outputs"

(* an override string with one of the keys is accepted and appends its     *)
(* value to the field's list in the entry of every addressed target        *)
AppendsOn(keys) ==
  (pc = "overrides" /\ oi <= Len(overrides) /\ pc' # "targets") =>
    LET v == overrides[oi]
        A == Addressed(PatternOf(v))
    IN (HasValue(v) /\ FieldOf(v) \in keys /\ A # {}) =>
         /\ err' = NoErr
         /\ oi' = oi + 1
         /\ \A n \in A :
              ListOf(o'[n][KeyField(FieldOf(v))]) = ListOf(At(o, n)[KeyField(FieldOf(v))]) \o <<ValueOf(v)>>

(* C10 as stated: tags, cache-from, cache-to, secrets, ssh, platforms and  *)
(* output are recognized override keys that append to their list.          *)
C10_ListKeysWithPlatforms ==
  [][AppendsOn({kTags, kCacheFrom, kCacheTo, kSecrets, kSSH, kPlatforms, kOutput})]_vars

C10_PlatformsUnknown ==
  (pc = "overrides" /\ oi <= Len(overrides) /\ pc' # "targets") =>
    LET v == overrides[oi] IN
    (HasValue(v) /\ FieldOf(v) = kPlatforms /\ Addressed(PatternOf(v)) # {}) =>
      (pc' = "done" /\ err' = [msg |-> "unknown key", arg |-> kPlatforms])

(* C10 amended: tags, cache-from, cache-to, secrets, ssh, platform and     *)
(* output are recognized override keys: such an override string is         *)
(* accepted and appends its value to the field's list in the entry of      *)
(* every addressed target, repeated overrides accumulating in the order    *)
(* given; the key platforms is rejected as an unknown key.                 *)
C10_ListKeys ==
  [][AppendsOn({kTags, kCacheFrom, kCacheTo, kSecrets, kSSH, kPlatform, kOutput})
     /\ C10_PlatformsUnknown]_vars

C10_Witness ==
  /\ pc = "overrides"
  /\ oi = 3
  /\ overrides = <<OvKV(webStar, kCacheTo, la), OvKV(webapp, kCacheTo, lb)>>
  /\ o[webapp].CacheTo = <<<<la, lb>>>>
  /\ o[webDEP].CacheTo = <<<<la>>>>
(* ------------------------------ C11 ----------------------------------- *)

(* the names ReadTargets resolves: the expansion of every requested name *)
RECURSIVE Expansion(_)
Expansion(i) == IF i > Len(targets) THEN <<>> ELSE ResolveGroup(c, targets[i]) \o Expansion(i + 1)

OnCycle(T) == T \in Ancestors(T)

(* the call by call run returns what ResolveGroup and ResolveTarget return *)
CallsAgree ==
  [][/\ (pc = "group" /\ pc' = "targets") => pending' = ResolveGroup(c, stack[1].name)
     /\ (pc = "target" /\ pc' = "targets") =>
           LET r == ResolveTarget(c, stack[1].name, o) IN
           /\ r.err = NoErr
           /\ m' = Put(m, stack[1].name, Val(r.t))
           /\ c' = configAfter(c, o, {stack[1].name})
           /\ o' = overridesAfter(o, {stack[1].name})
     /\ (pc = "target" /\ pc' = "done") => ResolveTarget(c, stack[1].name, o).err = err']_vars

InCall == pc \in {"group", "target"}

(* the list a frame loops over *)
Loop(frame) == IF pc = "group" THEN c.Group[frame.name] ELSE c.Target[frame.name].Inherits

RECURSIVE Sum(_, _)
Sum(f, S) == IF S = {} THEN 0 ELSE LET x == CHOOSE x \in S : TRUE IN f[x] + Sum(f, S \ {x})

Lists == {c.Group[n] : n \in DOMAIN c.Group} \cup {c.Target[n].Inherits : n \in DOMAIN c.Target}

Longest == CHOOSE k \in 0..20 : (\A l \in Lists : Len(l) <= k) /\ (\E l \in Lists \cup {<<>>} : Len(l) = k)

(* what is left to do in a call: the names not yet visited, each worth more *)
(* than one frame can hold, and the iterations and return of every frame    *)
Variant ==
  (Longest + 2) * Cardinality((DOMAIN c.Target \cup DOMAIN c.Group) \ visitedMap)
  + Sum([k \in 1..Len(stack) |-> Len(Loop(stack[k])) - stack[k].i + 2], 1..Len(stack))

(* C11: ResolveGroup and ResolveTarget terminate on every Config, cyclic   *)
(* groups and cyclic or diamond inheritance included: inside a call the    *)
(* loop of the innermost frame can iterate or has ended, every step before *)
(* the outermost return lowers a natural number, and the calls never nest  *)
(* deeper than there are names; the only error of resolution names a       *)
(* target that the Config lacks, and every requested target, one on an     *)
(* inheritance cycle included, is returned                                 *)
C11_CycleSafety ==
  /\ [][(InCall /\ pc' = pc) => Variant' < Variant]_vars
  /\ [](InCall => /\ Variant \in Nat
                 /\ stack # <<>>
                 /\ Top.i \in 1..(Len(Loop(Top)) + 1)
                 /\ (Top.i <= Len(Loop(Top)) => ENABLED (groupStep \/ targetStep)))
  /\ [](Len(stack) <= Cardinality(DOMAIN c.Target \cup DOMAIN c.Group))
  /\ [](pc = "done" =>
          /\ err.msg = "failed to find target" => ~Has(c.Target, err.arg)
          /\ err = NoErr => \A i \in 1..Len(Expansion(1)) :
                              /\ Expansion(1)[i] \in DOMAIN m
                              /\ ~Has(c.Group, Expansion(1)[i]))

C11_Witness ==
  /\ Succeeded
  /\ files = <<CfgGroups(<<webapp, db, default, webDEP>>, <<other, newservice, webapp>>,
                         <<db, default, other>>)>>
  /\ targets = <<default>>
  /\ OnCycle(webapp)
  /\ DOMAIN m = {webapp, webDEP, other}

(* ------------------------------ C12 ----------------------------------- *)

ListFields == AppendedFields \cup {"Tags", "Platforms", "Outputs", "CacheTo"}

NoDuplicate(s) == \A i, j \in 1..Len(s) : s[i] = s[j] => i = j

First(s, x) == CHOOSE k \in 1..Len(s) : s[k] = x /\ \A j \in 1..(k - 1) : s[j] # x

(* r holds every entry of s once, in the order in which they first occur *)
FirstOccurrences(r, s) ==
  /\ NoDuplicate(r)
  /\ {r[i] : i \in 1..Len(r)} = {s[i] : i \in 1..Len(s)}
  /\ \A i, j \in 1..Len(r) : i < j => First(s, r[i]) < First(s, r[j])

(* the list that the merges of target hand to normalize, nothing removed:  *)
(* for an appended field the lists of the inherits entries in order, then  *)
(* the own list, then the override's; for a replaced field the override's, *)
(* else the own, else the last inherits entry's that has one               *)
RECURSIVE Merged(_, _)
RECURSIVE MergedEach(_, _, _)
Merged(T, F) ==
  LET inh == MergedEach(Parents(T), F, Nil)
      own == c.Target[T][F]
      ovr == At(o, T)[F]
      Add(a, b) == IF b = Nil THEN a
                   ELSE IF F \in AppendedFields THEN Some(ListOf(a) \o Val(b))
                   ELSE b
  IN Add(Add(inh, own), ovr)

MergedEach(Ps, F, acc) ==
  IF Ps = <<>> THEN acc
  ELSE LET p == Merged(Head(Ps), F) IN
       MergedEach(Tail(Ps), F,
                  IF p = Nil THEN acc
                  ELSE IF F \in AppendedFields THEN Some(ListOf(acc) \o Val(p))
                  ELSE p)

(* C12: in every resolved target each of tags, cache-from, cache-to,       *)
(* secrets, ssh, platforms and output holds no entry twice and keeps the   *)
(* entries of the merged list in the order of their first occurrence (the  *)
(* tags a, a, b of webapp become a, b), and normalizing the resolved       *)
(* target again changes nothing                                            *)
C12_Normalized ==
  \A T \in DOMAIN m :
    /\ \A F \in ListFields : NoDuplicate(ListOf(m[T][F]))
    /\ IsTree(T) => \A F \in ListFields : FirstOccurrences(ListOf(m[T][F]), ListOf(Merged(T, F)))
    /\ normalize(m[T]) = m[T]
    /\ (T = webapp /\ files = <<CfgLists>> /\ At(o, T).Tags = Nil) => m[T].Tags = Some(<<la, lb>>)

C12_Witness ==
  /\ Succeeded
  /\ files = <<CfgLists>>
  /\ overrides = <<OvKV(webapp, kSecrets, lb), OvKV(webStar, kCacheTo, la)>>
  /\ webapp \in DOMAIN m
  /\ m[webapp].Tags = Some(<<la, lb>>)
  /\ m[webapp].Secrets = Some(<<lb, la>>)
  /\ m[webapp].CacheTo = Some(<<la>>)
  /\ m[webapp].Platforms = Some(<<la>>)

(* ------------------------------ C13 ----------------------------------- *)

(* the names that resolving the requested names looks up in c.Target *)
LookedUp == UNION {Reachable(Expansion(1)[i]) : i \in 1..Len(Expansion(1))}

(* C13: when a requested name, after group expansion, or a name reached    *)
(* through an inherits list has no entry in the merged Config's target     *)
(* map, ReadTargets returns an error and no map, whatever was resolved     *)
(* before; when the overrides were accepted the error names such a target  *)
C13_NotFoundAborts ==
  (pc = "done" /\ \E x \in LookedUp : ~Has(c.Target, x)) =>
     /\ err # NoErr
     /\ m = NoMap
     /\ oi > Len(overrides) =>
          /\ err.msg = "failed to find target"
          /\ err.arg \in LookedUp
          /\ ~Has(c.Target, err.arg)

C13_Witness ==
  /\ pc = "done"
  /\ targets = <<other, webapp>>
  /\ c.Target[webapp].Inherits = <<webDEP, nosuchtarget>>
  /\ ResolveTarget(c, other, o).err = NoErr
  /\ err = Errorf("failed to find target", nosuchtarget)
  /\ m = NoMap

(* ------------------------------ C14 ----------------------------------- *)

(* what resolving A gives: its own fields, its ancestors and its overrides *)
ResolutionOf(A) == Val(target(c, o, A, {}).t)

(* C14: a resolved target T that neither declares nor is overridden on a   *)
(* scalar field has the value of the last entry of its inherits list whose *)
(* resolution sets the field (the fallback when none does), in every       *)
(* inheritance graph                                                       *)
C14_LastListedWins ==
  \A T \in DOMAIN m : \A f \in ScalarFlds :
    (Overridden(T, f) = <<>> /\ Declared(T, f) = <<>>) =>
       LET ps == Parents(T)
           S == {i \in 1..Len(ps) : Get(ResolutionOf(ps[i]), f) # <<>>}
           last == CHOOSE i \in S : \A j \in S : j <= i
       IN Get(m[T], f) = OrFallback(IF S = {} THEN <<>> ELSE Get(ResolutionOf(ps[last]), f), f)

(* ------------------------------ C15 ----------------------------------- *)

(* C15: ResolveGroup and ResolveTarget leave every target of the merged    *)
(* Config and every entry of the override table with the field values,     *)
(* list contents included, that they had before the call                   *)
C15_InputsUnchanged == [][pc = "targets" => (c' = c /\ o' = o)]_vars

(* ------------------------------ C16 ----------------------------------- *)

(* the names still to expand are worked off from the front: a group seen   *)
(* before is dropped, a new group is replaced by its members, any other    *)
(* name is put out                                                         *)
RECURSIVE Unroll(_, _, _)
Unroll(work, seen, out) ==
  IF work = <<>> THEN out
  ELSE LET x == Head(work) IN
       IF x \in seen THEN Unroll(Tail(work), seen, out)
       ELSE IF x \in DOMAIN c.Group THEN Unroll(c.Group[x] \o Tail(work), seen \cup {x}, out)
       ELSE Unroll(Tail(work), seen, Append(out, x))

(* C16: ResolveGroup(name) is [name] when name is no known group, else the *)
(* depth-first expansions of the group's members joined in declared order, *)
(* a group visited before in the call giving nothing; the list it returns  *)
(* holds no name of a known group                                          *)
C16_GroupExpansion ==
  [][(pc = "targets" /\ ti' = ti + 1) =>
       LET name == targets[ti] IN
       /\ name \notin DOMAIN c.Group => pending' = <<name>>
       /\ name \in DOMAIN c.Group => pending' = Unroll(c.Group[name], {name}, <<>>)
       /\ \A i \in 1..Len(pending') : pending'[i] \notin DOMAIN c.Group]_vars

C16_Witness ==
  /\ pc = "targets"
  /\ files = <<CfgGroups(<<webapp, db, default, webDEP>>, <<other, newservice, webapp>>,
                         <<db, default, other>>)>>
  /\ targets = <<default>>
  /\ ti = 2
  /\ pending = <<webapp, other, other, webapp, webDEP>>
====
